---- MODULE Spec2Model ----
(***************************************************************************)
(* The config-driven membership synchroniser of sync_service.py: run_sync  *)
(* walks the configured mappings, reads the Google group and the Slack     *)
(* channel of each, diffs them by e-mail and invites / kicks through the   *)
(* Slack client.  The model is the state machine of run_sync, cut at the   *)
(* calls to the two external services, whose answers are the inputs.       *)
(*                                                                         *)
(* E-mails are integers: 0 is the empty string, a positive number is a     *)
(* lowercase address and its negation the same address spelled with upper  *)
(* case letters.  Handles (Slack user ids) are positive integers.          *)
(***************************************************************************)
EXTENDS Integers, Sequences, FiniteSets, TLC

(***************************************************************************)
(* Bounds of the model.                                                    *)
(***************************************************************************)
\* plain accounts (one distinct address each) that a large group adds
Bulk == 49
\* mappings of the configuration; all address the same group and channel
NumMappings == 2
\* a configured max_changes_per_run is drawn from 1..MaxCeiling
MaxCeiling == 1
\* the accounts whose attributes are chosen freely, and their addresses
Accounts == 1..2
Emails == 1..2

(***************************************************************************)
(* Program constants.                                                      *)
(***************************************************************************)
chunk_size == 30
DefaultMaxChanges == 50

FlagNames == {"is_admin", "is_owner", "is_bot", "is_app_user"}

Min(S) == CHOOSE x \in S : \A y \in S : x <= y
Max(S) == CHOOSE x \in S : \A y \in S : x >= y
Range(s) == {s[k] : k \in DOMAIN s}

\* str.lower() on an address
Lower(e) == IF e < 0 THEN -e ELSE e

\* dict.get(key, default) on a setting kept as <<>> (absent) or <<value>>
Get(setting, default) == IF setting = <<>> THEN default ELSE setting[1]

\* dict.get(key) on a cache record whose default is {}: a missing key is falsy
Flag(details, name) == IF name \in DOMAIN details THEN details[name] ELSE FALSE

(***************************************************************************)
(* The two orders in which the model walks a Python set of addresses (the  *)
(* language leaves the order open).                                        *)
(***************************************************************************)
RECURSIVE Asc(_)
Asc(S) == IF S = {} THEN <<>> ELSE <<Min(S)>> \o Asc(S \ {Min(S)})

RECURSIVE Desc(_)
Desc(S) == IF S = {} THEN <<>> ELSE <<Max(S)>> \o Desc(S \ {Max(S)})

ListOrders(S) == {Asc(S), Desc(S)}

(***************************************************************************)
(* The roster users_list answers with: the freely chosen accounts, then    *)
(* the plain ones, whose profile spells the address in upper case.         *)
(***************************************************************************)
Member(i, del, e, fl) ==
    [id |-> i, deleted |-> del, email |-> e,
     is_admin |-> "is_admin" \in fl, is_owner |-> "is_owner" \in fl,
     is_bot |-> "is_bot" \in fl, is_app_user |-> "is_app_user" \in fl]

\* an account carries at most one of the four flags
FlagChoices == {{}} \cup {{name} : name \in FlagNames}

\* A deactivated account is skipped whole, so one such record stands for all.
\* The flags of an account without address are never read: it is a bot.
\* Addresses are interchangeable, so account i draws from the first i; so
\* are handles, and an account that does not resolve is not the first.
MemberChoices(i) ==
    (IF i = Min(Accounts) THEN {}
     ELSE {Member(i, TRUE, 0, {}), Member(i, FALSE, 0, {"is_bot"})})
    \cup {Member(i, FALSE, e, fl) : e \in {x \in Emails : x <= i}, fl \in FlagChoices}

BulkMember(j) == Member(Max(Accounts) + j, FALSE, -(Max(Emails) + j), {})

FreeRosters ==
    {f \in [Accounts -> UNION {MemberChoices(i) : i \in Accounts}] :
        \A i \in Accounts : f[i] \in MemberChoices(i)}

BulkRoster ==
    [i \in 1..(Max(Accounts) + Bulk) |->
        IF i \in Accounts THEN Member(i, FALSE, Min({i, Max(Emails)}), {})
        ELSE BulkMember(i - Max(Accounts))]

HasBulk(members) == Len(members) > Max(Accounts)

(***************************************************************************)
(* The member listing of the Google group: user entries (those of the      *)
(* plain accounts whenever the roster has them), and one nested group      *)
(* whose address belongs to no account.                                    *)
(***************************************************************************)
NestedGroupEmail == Max(Emails) + Bulk + 1

BulkEmails(members) ==
    IF HasBulk(members) THEN (Max(Emails) + 1)..(Max(Emails) + Bulk) ELSE {}

GroupListings(members) ==
    {{[type |-> "USER", email |-> e] : e \in es \cup BulkEmails(members)}
        \cup {[type |-> "GROUP", email |-> NestedGroupEmail]} :
       es \in SUBSET Emails}

\* GoogleDirectoryClient.get_group_members
get_group_members(listing) ==
    {Lower(member.email) : member \in {x \in listing : x.type = "USER"}}

(***************************************************************************)
(* SlackSyncClient.populate_user_cache: the roster folded in order, a      *)
(* later account overwriting an earlier one under the same key.            *)
(***************************************************************************)
user_data(member) ==
    [id |-> member.id, email |-> Lower(member.email),
     is_admin |-> member.is_admin, is_owner |-> member.is_owner,
     is_bot |-> member.is_bot, is_app_user |-> member.is_app_user]

RECURSIVE CacheByEmail(_, _)
CacheByEmail(members, n) ==
    IF n = 0 THEN <<>>
    ELSE LET rest == CacheByEmail(members, n - 1)
             member == members[n]
             data == user_data(member)
         IN  IF member.deleted \/ data.email = 0 THEN rest
             ELSE (data.email :> data) @@ rest

RECURSIVE CacheById(_, _)
CacheById(members, n) ==
    IF n = 0 THEN <<>>
    ELSE LET rest == CacheById(members, n - 1)
             member == members[n]
         IN  IF member.deleted THEN rest
             ELSE (member.id :> user_data(member)) @@ rest

(***************************************************************************)
(* SyncStats                                                               *)
(***************************************************************************)
SyncStats(name) ==
    [mapping_name |-> name, added |-> 0, removed |-> 0, skipped |-> 0,
     missing_accounts |-> <<>>, errors |-> <<>>, status |-> "Success"]

Error(msg, arg) == [msg |-> msg, arg |-> arg]

VARIABLES
    \* the outside world
    roster,          \* what users_list answers
    google_group,    \* the member listing of the Google group
    channel,         \* handles now in the Slack channel
    \* config.yaml and the environment
    settings,        \* dry_run and max_changes_per_run, each <<>> or <<value>>
    mappings,        \* config.mappings
    \* run_sync
    pc,
    user_cache,      \* s_client.user_cache: e-mail -> user_data
    id_map,          \* s_client.id_map: handle -> user_data
    m_idx,           \* position of the loop over config.mappings
    stats,
    stats_list,
    protected_ids,
    slack_uids,
    slack_member_map,
    to_add_emails,
    candidate_remove_emails,
    remaining,       \* candidate_remove_emails not yet walked by the loop
    \* invite_users
    user_ids_to_invite,
    missing_accounts,
    added_count,
    chunk_start,     \* the loop variable i, 1-based
    \* the calls made to the mutating endpoints while the mapping is processed
    calls,
    \* whether the mapping being processed got as far as its diff
    diffed,
    \* the previous processing of the mapping, as it stood when it ended
    prev

vars == <<roster, google_group, channel, settings, mappings, pc, user_cache, id_map,
          m_idx, stats, stats_list, protected_ids, slack_uids, slack_member_map,
          to_add_emails, candidate_remove_emails, remaining, user_ids_to_invite,
          missing_accounts, added_count, chunk_start, calls, diffed, prev>>

world == <<roster, google_group, settings, mappings>>
caches == <<user_cache, id_map>>
diff == <<slack_uids, slack_member_map, to_add_emails, candidate_remove_emails, diffed>>
invite == <<user_ids_to_invite, missing_accounts, added_count, chunk_start>>

NoPrev == [valid |-> FALSE]

\* a protected list names at most one of the accounts
ProtectedChoices == {{}} \cup {{uid} : uid \in Accounts}

\* at most one mapping of the configuration is disabled
EnabledChoices ==
    {en \in [1..NumMappings -> BOOLEAN] :
        Cardinality({k \in 1..NumMappings : ~en[k]}) <= 1}

\* the configuration sets dry_run; max_changes_per_run may be absent
SettingsChoices ==
    [dry_run : {<<TRUE>>, <<FALSE>>},
     max_changes_per_run : {<<>>} \cup {<<n>> : n \in 1..MaxCeiling}]

Mappings(prot, en) ==
    [k \in 1..NumMappings |->
        [name |-> k, enabled |-> en[k], google_group |-> "group",
         slack_channel |-> "channel", protected_slack_users |-> prot]]

\* The large roster and a configured ceiling come with every mapping enabled
\* and nobody protected.
Init ==
    /\ roster \in FreeRosters \cup {BulkRoster}
    /\ google_group \in GroupListings(roster)
    /\ channel \in SUBSET Accounts
    /\ settings \in SettingsChoices
    /\ IF HasBulk(roster) \/ settings.max_changes_per_run # <<>>
       THEN mappings = Mappings({}, [k \in 1..NumMappings |-> TRUE])
       ELSE \E prot \in ProtectedChoices, en \in EnabledChoices :
               mappings = Mappings(prot, en)
    /\ pc = "populate"
    /\ user_cache = <<>>
    /\ id_map = <<>>
    /\ m_idx = 1
    /\ stats = SyncStats(0)
    /\ stats_list = <<>>
    /\ protected_ids = {}
    /\ slack_uids = {}
    /\ slack_member_map = <<>>
    /\ to_add_emails = {}
    /\ candidate_remove_emails = {}
    /\ remaining = {}
    /\ user_ids_to_invite = <<>>
    /\ missing_accounts = <<>>
    /\ added_count = 0
    /\ chunk_start = 1
    /\ calls = <<>>
    /\ diffed = FALSE
    /\ prev = NoPrev

(***************************************************************************)
(* run_sync, step 3: the roster is read once; an API error ends the run.   *)
(***************************************************************************)
PopulateUserCache ==
    /\ pc = "populate"
    /\ \E outcome \in {"ok", "error"} :
         IF outcome = "ok"
         THEN /\ user_cache' = CacheByEmail(roster, Len(roster))
              /\ id_map' = CacheById(roster, Len(roster))
              /\ pc' = "loop"
         ELSE /\ pc' = "crashed"
              /\ UNCHANGED caches
    /\ UNCHANGED <<world, channel, m_idx, stats, stats_list, protected_ids, diff,
                   remaining, invite, calls, prev>>

(***************************************************************************)
(* run_sync, lines 328-333: the handler of an uncaught error, and the      *)
(* append that ends every processed mapping.                               *)
(***************************************************************************)
Failed(st, msg) ==
    [st EXCEPT !.status = "Failed", !.errors = Append(@, Error(msg, 0))]

\* faulty variant of EndMapping: the mapping is appended twice
EndMapping_Twice(st) ==
    /\ stats' = st
    /\ stats_list' = Append(Append(stats_list, st), st)
    /\ m_idx' = m_idx + 1
    /\ pc' = "loop"

EndMapping(st) ==
    /\ stats' = st
    /\ stats_list' = Append(stats_list, st)
    /\ m_idx' = m_idx + 1
    /\ pc' = "loop"

(***************************************************************************)
(* run_sync, lines 247-249: a mapping that is not enabled is passed over.  *)
(***************************************************************************)
SkipDisabled ==
    /\ pc = "loop"
    /\ m_idx <= Len(mappings)
    /\ ~mappings[m_idx].enabled
    /\ m_idx' = m_idx + 1
    /\ UNCHANGED <<world, channel, caches, pc, stats, stats_list, protected_ids,
                   diff, remaining, invite, calls, prev>>

(***************************************************************************)
(* run_sync, lines 266-270: a handle resolves when id_map knows it with a  *)
(* non-empty address; of several handles with one address the one the set  *)
(* yields last stays in the map.                                           *)
(***************************************************************************)
Resolves(uid) == uid \in DOMAIN id_map /\ id_map[uid].email # 0

Holders(uids, email) == {uid \in uids : Resolves(uid) /\ id_map[uid].email = email}

SlackMemberMaps(uids) ==
    LET emails == {id_map[uid].email : uid \in {x \in uids : Resolves(x)}}
        shared == {e \in emails : Cardinality(Holders(uids, e)) > 1}
        picks == {g \in [shared -> UNION {Holders(uids, e) : e \in shared}] :
                    \A e \in shared : g[e] \in Holders(uids, e)}
    IN  {[e \in emails |-> IF e \in shared THEN g[e]
                           ELSE CHOOSE uid \in Holders(uids, e) : TRUE] : g \in picks}

(***************************************************************************)
(* Faulty variants of the operators that follow.  A property that is to    *)
(* say something about the diff, the ceiling or the missing accounts must  *)
(* fail once the operator is replaced by its variant.                      *)
(***************************************************************************)
\* invites the whole group
ToAdd_All(google_emails, slack_emails) == google_emails

\* invites nobody
ToAdd_None(google_emails, slack_emails) == {}

\* removes every channel member
CandidateRemove_All(google_emails, slack_emails) == slack_emails

\* aborts at the ceiling already
ExceedsCeiling_AtLeast(total_changes) ==
    total_changes >= Get(settings.max_changes_per_run, DefaultMaxChanges)

\* reports no missing account
ResolveMissing_None(emails) == <<>>

\* run_sync, lines 275 and 280
ToAdd(google_emails, slack_emails) == google_emails \ slack_emails

CandidateRemove(google_emails, slack_emails) == slack_emails \ google_emails

\* run_sync, line 284
ExceedsCeiling(total_changes) ==
    total_changes > Get(settings.max_changes_per_run, DefaultMaxChanges)

\* invite_users, lines 145-152
ResolveIds(emails) ==
    SelectSeq([k \in DOMAIN emails |->
                  IF emails[k] \in DOMAIN user_cache
                  THEN user_cache[emails[k]].id ELSE 0],
              LAMBDA x : x # 0)

ResolveMissing(emails) == SelectSeq(emails, LAMBDA e : e \notin DOMAIN user_cache)

(***************************************************************************)
(* run_sync, lines 247-298: an enabled mapping, from the head of the loop  *)
(* through both fetches, the diff, the ceiling and the start of            *)
(* invite_users, up to the first call to a mutating endpoint.  What the    *)
(* previous processing left is kept aside, and the locals start afresh.    *)
(***************************************************************************)
SyncMapping ==
    /\ pc = "loop"
    /\ m_idx <= Len(mappings)
    /\ mappings[m_idx].enabled
    /\ protected_ids' = mappings[m_idx].protected_slack_users
    /\ prev' = IF Len(stats_list) = 0 THEN NoPrev
               ELSE [valid |-> TRUE, stats |-> stats,
                     to_add_emails |-> to_add_emails,
                     candidate_remove_emails |-> candidate_remove_emails,
                     slack_member_map |-> slack_member_map,
                     slack_uids |-> slack_uids,
                     diffed |-> diffed,
                     calls |-> calls]
    /\ calls' = <<>>
    /\ added_count' = 0
    /\ chunk_start' = 1
    /\ LET fresh == SyncStats(mappings[m_idx].name) IN
       \E outcome \in {"ok", "google_error", "slack_error"} :
         IF outcome # "ok"
         THEN /\ EndMapping(Failed(fresh, outcome))
              /\ diffed' = FALSE
              /\ slack_uids' = {}
              /\ slack_member_map' = <<>>
              /\ to_add_emails' = {}
              /\ candidate_remove_emails' = {}
              /\ remaining' = {}
              /\ user_ids_to_invite' = <<>>
              /\ missing_accounts' = <<>>
         ELSE LET google_emails == get_group_members(google_group) IN
              \E smap \in SlackMemberMaps(channel) :
                LET slack_emails == DOMAIN smap
                    to_add == ToAdd(google_emails, slack_emails)
                    candidate_remove == CandidateRemove(google_emails, slack_emails)
                    total_changes == Cardinality(to_add) + Cardinality(candidate_remove)
                IN
                /\ diffed' = TRUE
                /\ slack_uids' = channel
                /\ slack_member_map' = smap
                /\ to_add_emails' = to_add
                /\ candidate_remove_emails' = candidate_remove
                /\ IF ExceedsCeiling(total_changes)
                   THEN /\ EndMapping([fresh EXCEPT
                               !.errors = Append(@, Error("Aborting", total_changes)),
                               !.status = "Aborted"])
                        /\ remaining' = {}
                        /\ user_ids_to_invite' = <<>>
                        /\ missing_accounts' = <<>>
                   ELSE IF to_add = {}
                   THEN /\ pc' = "remove"
                        /\ stats' = fresh
                        /\ remaining' = candidate_remove
                        /\ user_ids_to_invite' = <<>>
                        /\ missing_accounts' = <<>>
                        /\ UNCHANGED <<stats_list, m_idx>>
                   ELSE \E emails \in ListOrders(to_add) :
                        /\ pc' = "invite"
                        /\ stats' = fresh
                        /\ remaining' = {}
                        /\ user_ids_to_invite' = ResolveIds(emails)
                        /\ missing_accounts' = ResolveMissing(emails)
                        /\ UNCHANGED <<stats_list, m_idx>>
    /\ UNCHANGED <<world, channel, caches>>

(***************************************************************************)
(* invite_users, lines 155-171: one chunk of the batch.  Outside a dry run *)
(* the invite endpoint answers ok, with the API error already_in_channel,  *)
(* with another API error, or the call raises something that is no         *)
(* SlackApiError (which leaves invite_users and reaches run_sync).         *)
(***************************************************************************)
Call(op, users, result) == [op |-> op, users |-> users, result |-> result]

ChunkAt(ids, start) ==
    SubSeq(ids, start, IF start + chunk_size - 1 < Len(ids)
                       THEN start + chunk_size - 1 ELSE Len(ids))

InviteOutcomes == {"ok", "already_in_channel", "error", "exception"}

\* faulty variants of AddedAfter: a dry run counts nothing; an
\* already-a-member answer counts its chunk
AddedAfter_SkipsDryRun(count, chunk, outcome) ==
    IF outcome = "ok" THEN count + Len(chunk) ELSE count

AddedAfter_CountsAlready(count, chunk, outcome) ==
    IF outcome \in {"dry_run", "ok", "already_in_channel"}
    THEN count + Len(chunk) ELSE count

\* added_count after a chunk: lines 160 (dry run), 164 (ok) and 166-171
AddedAfter(count, chunk, outcome) ==
    IF outcome \in {"dry_run", "ok"} THEN count + Len(chunk) ELSE count

InviteChunk ==
    /\ pc = "invite"
    /\ chunk_start <= Len(user_ids_to_invite)
    /\ LET chunk == ChunkAt(user_ids_to_invite, chunk_start) IN
       IF settings.dry_run[1]
       THEN /\ added_count' = AddedAfter(added_count, chunk, "dry_run")
            /\ chunk_start' = chunk_start + chunk_size
            /\ UNCHANGED <<channel, calls, pc, stats, stats_list, m_idx>>
       ELSE \E outcome \in InviteOutcomes :
            /\ calls' = Append(calls, Call("invite", Range(chunk), outcome))
            /\ channel' = IF outcome = "ok" THEN channel \cup Range(chunk) ELSE channel
            /\ IF outcome = "exception"
               THEN /\ EndMapping(Failed(stats, "invite exception"))
                    /\ UNCHANGED <<added_count, chunk_start>>
               ELSE /\ added_count' = AddedAfter(added_count, chunk, outcome)
                    /\ chunk_start' = chunk_start + chunk_size
                    /\ UNCHANGED <<pc, stats, stats_list, m_idx>>
    /\ UNCHANGED <<world, caches, protected_ids, diff, remaining, user_ids_to_invite,
                   missing_accounts, prev>>

(***************************************************************************)
(* invite_users returns (line 173); run_sync stores the pair (297-298).    *)
(***************************************************************************)
InviteReturn ==
    /\ pc = "invite"
    /\ chunk_start > Len(user_ids_to_invite)
    /\ stats' = [stats EXCEPT !.added = added_count,
                              !.missing_accounts = missing_accounts]
    /\ remaining' = candidate_remove_emails
    /\ pc' = "remove"
    /\ UNCHANGED <<world, channel, caches, m_idx, stats_list, protected_ids, diff,
                   invite, calls, prev>>

(***************************************************************************)
(* run_sync, lines 301-326: one removal candidate, taken in set order.     *)
(* kick_user (175-187) answers True in a dry run without a call; else the  *)
(* kick endpoint answers ok, with an API error (False), or the call raises *)
(* something that is no SlackApiError.                                     *)
(***************************************************************************)
KickOutcomes == {"ok", "error", "exception"}

Rejected(uid, user_details) ==
    \/ uid \in protected_ids
    \/ Flag(user_details, "is_admin") \/ Flag(user_details, "is_owner")
    \/ Flag(user_details, "is_bot") \/ Flag(user_details, "is_app_user")

RemoveStep ==
    /\ pc = "remove"
    /\ \E email \in remaining :
         LET uid == slack_member_map[email]
             user_details == IF email \in DOMAIN user_cache
                             THEN user_cache[email] ELSE <<>>
         IN
         IF Rejected(uid, user_details)
         THEN /\ stats' = [stats EXCEPT !.skipped = @ + 1]
              /\ remaining' = remaining \ {email}
              /\ UNCHANGED <<channel, calls, pc, stats_list, m_idx>>
         ELSE IF settings.dry_run[1]
         THEN /\ stats' = [stats EXCEPT !.removed = @ + 1]
              /\ remaining' = remaining \ {email}
              /\ UNCHANGED <<channel, calls, pc, stats_list, m_idx>>
         ELSE \E outcome \in KickOutcomes :
              /\ calls' = Append(calls, Call("kick", {uid}, outcome))
              /\ channel' = IF outcome = "ok" THEN channel \ {uid} ELSE channel
              /\ IF outcome = "exception"
                 THEN /\ EndMapping(Failed(stats, "kick exception"))
                      /\ UNCHANGED remaining
                 ELSE /\ stats' = IF outcome = "ok"
                                  THEN [stats EXCEPT !.removed = @ + 1]
                                  ELSE [stats EXCEPT !.errors =
                                          Append(@, Error("Failed to kick", email))]
                      /\ remaining' = remaining \ {email}
                      /\ UNCHANGED <<pc, stats_list, m_idx>>
    /\ UNCHANGED <<world, caches, protected_ids, diff, invite, prev>>

\* run_sync, line 333: the removal loop is through
FinishMapping ==
    /\ pc = "remove"
    /\ remaining = {}
    /\ EndMapping(stats)
    /\ UNCHANGED <<world, channel, caches, protected_ids, diff, remaining, invite,
                   calls, prev>>

(***************************************************************************)
(* run_sync, line 336: the loop is through and post_report (189-219) ends  *)
(* the run.  It posts nothing without a notify channel or in a dry run, a  *)
(* failed post is logged only, and nothing of the run's state changes      *)
(* either way.                                                             *)
(***************************************************************************)
PostReport ==
    /\ pc = "loop"
    /\ m_idx > Len(mappings)
    /\ pc' = "done"
    /\ UNCHANGED <<world, channel, caches, m_idx, stats, stats_list, protected_ids,
                   diff, remaining, invite, calls, prev>>

Next ==
    \/ PopulateUserCache
    \/ SkipDisabled
    \/ SyncMapping
    \/ InviteChunk
    \/ InviteReturn
    \/ RemoveStep
    \/ FinishMapping
    \/ PostReport

Spec == Init /\ [][Next]_vars

(***************************************************************************)
(* What the properties below read off a state.                             *)
(***************************************************************************)
GroupEmails == get_group_members(google_group)
Ceiling == Get(settings.max_changes_per_run, DefaultMaxChanges)
DryRun == settings.dry_run[1]
TotalChanges == Cardinality(to_add_emails) + Cardinality(candidate_remove_emails)

\* a mapping has been processed to its end, and stats, the diff and calls
\* are still those of the last one that was
Ended == pc \in {"loop", "done"} /\ Len(stats_list) > 0

EmailOf(uid) == id_map[uid].email
ResolvedEmails(uids) == {EmailOf(uid) : uid \in {x \in uids : Resolves(x)}}

\* the handle's own roster record carries one of the four flags
Privileged(uid) ==
    /\ uid \in DOMAIN id_map
    /\ \/ id_map[uid].is_admin \/ id_map[uid].is_owner
       \/ id_map[uid].is_bot \/ id_map[uid].is_app_user

CallsOf(cs, op, results) ==
    {k \in DOMAIN cs : cs[k].op = op /\ cs[k].result \in results}
Targets(cs, op, results) == UNION {cs[k].users : k \in CallsOf(cs, op, results)}

RECURSIVE SizeSum(_, _, _, _)
SizeSum(cs, n, op, results) ==
    IF n = 0 THEN 0
    ELSE SizeSum(cs, n - 1, op, results)
         + (IF n \in CallsOf(cs, op, results) THEN Cardinality(cs[n].users) ELSE 0)
Sizes(cs, op, results) == SizeSum(cs, Len(cs), op, results)

AllOk(cs) == \A k \in DOMAIN cs : cs[k].result = "ok"
Missing == to_add_emails \ DOMAIN user_cache

(***************************************************************************)
(* C1: run_sync issues no kick for a handle that is in the protected set   *)
(* or whose own roster record has is_admin, is_owner, is_bot or            *)
(* is_app_user set, whatever the roster (two accounts may share an         *)
(* address); each such removal candidate is counted in skipped.            *)
(***************************************************************************)
C1_NoKickOfProtectedOrPrivileged ==
    /\ \A uid \in Targets(calls, "kick", KickOutcomes) :
          uid \notin protected_ids /\ ~Privileged(uid)
    /\ (Ended /\ stats.status = "Success") =>
          stats.skipped = Cardinality({e \in candidate_remove_emails :
              slack_member_map[e] \in protected_ids \/ Privileged(slack_member_map[e])})

(***************************************************************************)
(* C2: when |to_add| + |candidate_remove| is strictly greater than         *)
(* max_changes_per_run (50 when unset) the mapping ends "Aborted" with the *)
(* reason as its only error, counters at 0 and no invite or kick call;     *)
(* when the total is at most the ceiling the mapping is not aborted.       *)
(***************************************************************************)
C2_SafetyCeiling ==
    /\ (calls # <<>> \/ pc \in {"invite", "remove"}) => TotalChanges <= Ceiling
    /\ (Ended /\ diffed /\ TotalChanges > Ceiling) =>
          /\ stats.status = "Aborted"
          /\ stats.errors = <<Error("Aborting", TotalChanges)>>
          /\ stats.added = 0 /\ stats.removed = 0 /\ stats.skipped = 0
          /\ calls = <<>>
    /\ (Ended /\ ~(diffed /\ TotalChanges > Ceiling)) => stats.status # "Aborted"

\* a mapping aborted under the default ceiling
C2_Witness ==
    /\ Ended /\ stats.status = "Aborted"
    /\ settings.max_changes_per_run = <<>>
    /\ TotalChanges = DefaultMaxChanges + 1

(***************************************************************************)
(* C3: every kicked handle was in the fetched channel member set, resolves *)
(* through id_map to a non-empty address, and that address is not in the   *)
(* group; every invited handle resolves to an address of the group that is *)
(* the address of no fetched channel member; a channel handle without      *)
(* resolvable address is neither invited nor kicked.                       *)
(***************************************************************************)
C3_CallsFollowTheDiff ==
    LET kicked == Targets(calls, "kick", KickOutcomes)
        invited == Targets(calls, "invite", InviteOutcomes)
        group == GroupEmails
        held == ResolvedEmails(slack_uids)
    IN
    calls # <<>> =>
       /\ \A uid \in kicked :
             /\ uid \in slack_uids
             /\ Resolves(uid)
             /\ EmailOf(uid) \notin group
       /\ \A uid \in invited :
             /\ Resolves(uid)
             /\ EmailOf(uid) \in group
             /\ EmailOf(uid) \notin held
       /\ \A uid \in slack_uids :
             ~Resolves(uid) => uid \notin kicked /\ uid \notin invited

\* one mapping both invited and kicked
C3_Witness ==
    /\ CallsOf(calls, "kick", KickOutcomes) # {}
    /\ CallsOf(calls, "invite", InviteOutcomes) # {}

(***************************************************************************)
(* C4: a dry run issues no invite and no kick call, and ends with the same *)
(* added, removed and skipped counts and the same missing accounts as a    *)
(* run without dry_run in which every call succeeds: both end with the     *)
(* counts below, which depend on the fetched data only (given the handle   *)
(* the map keeps for an address that several channel members share).       *)
(***************************************************************************)
ExpectedSkipped ==
    Cardinality({e \in candidate_remove_emails :
        Rejected(slack_member_map[e],
                 IF e \in DOMAIN user_cache THEN user_cache[e] ELSE <<>>)})

ExpectedCounts ==
    /\ stats.added = Cardinality(to_add_emails \cap DOMAIN user_cache)
    /\ Range(stats.missing_accounts) = Missing
    /\ stats.skipped = ExpectedSkipped
    /\ stats.removed = Cardinality(candidate_remove_emails) - ExpectedSkipped

DiffAlgebra ==
    /\ to_add_emails \cap candidate_remove_emails = {}
    /\ ((DOMAIN slack_member_map) \ candidate_remove_emails) \cup to_add_emails
          = GroupEmails

CleanRun ==
    /\ Ended /\ ~DryRun /\ stats.status = "Success"
    /\ stats.skipped = 0 /\ AllOk(calls)

C5_Original ==
    diffed => /\ DiffAlgebra
              /\ CleanRun => ResolvedEmails(channel) = GroupEmails

(***************************************************************************)
(* C5, amended: to_add and candidate_remove are disjoint and (S minus      *)
(* candidate_remove) united with to_add is G; after such a run the         *)
(* resolved addresses of the channel's members are G without the missing   *)
(* accounts, together with every removed address that two or more fetched  *)
(* channel members shared (one handle per address is kicked).              *)
(***************************************************************************)
SharedRemoved ==
    {e \in candidate_remove_emails : Cardinality(Holders(slack_uids, e)) > 1}

C5_ChannelAfterCleanRun ==
    diffed => /\ DiffAlgebra
              /\ CleanRun => ResolvedEmails(channel) =
                    (GroupEmails \ Range(stats.missing_accounts)) \cup SharedRemoved

\* a clean run that kicked a member and left an account of the group missing
C5_Witness ==
    /\ CleanRun
    /\ CallsOf(calls, "kick", {"ok"}) # {}
    /\ stats.missing_accounts # <<>>

(***************************************************************************)
(* C6 as stated: the mapping reconciled a second time, after a first run   *)
(* without dry_run whose mutations were applied and with nothing else      *)
(* changed, has to_add and candidate_remove empty.                         *)
(***************************************************************************)
SecondRun == prev.valid /\ prev.diffed /\ diffed

C7_MissingAccounts ==
    /\ \A uid \in Targets(calls, "invite", InviteOutcomes) :
          Resolves(uid) /\ EmailOf(uid) \notin Missing
    /\ pc = "invite" =>
          /\ Range(missing_accounts) = Missing
          /\ Len(missing_accounts) = Cardinality(Missing)
          /\ stats.status = "Success" /\ stats.errors = <<>>
    /\ (pc = "remove" /\ to_add_emails # {}) =>
          /\ Range(stats.missing_accounts) = Missing
          /\ Len(stats.missing_accounts) = Cardinality(Missing)
          /\ stats.added <= Cardinality(to_add_emails) - Cardinality(Missing)
          /\ stats.status = "Success"

\* invite_users returned with one account added and another missing
C7_Witness ==
    /\ pc = "remove"
    /\ Missing # {}
    /\ stats.added > 0

(***************************************************************************)
(* C8: an uncaught error while a mapping is processed marks it "Failed"    *)
(* and records the error; its added and removed counts are the numbers of  *)
(* members whose invite and kick calls had succeeded by then; and every    *)
(* later enabled mapping is still processed.                               *)
(***************************************************************************)
EnabledMappings == {k \in DOMAIN mappings : mappings[k].enabled}

C8_FailedKeepsPartialCounts ==
    /\ (Ended /\ stats.status = "Failed") =>
          /\ stats.errors # <<>>
          /\ stats.added = Sizes(calls, "invite", {"ok"})
          /\ stats.removed = Sizes(calls, "kick", {"ok"})
    /\ pc = "done" => Len(stats_list) = Cardinality(EnabledMappings)

(***************************************************************************)
(* C9 as stated: outside a dry run count_added is the number of resolved   *)
(* handles less the sizes of the chunks whose invite failed with an error  *)
(* other than already-a-member, and every chunk is submitted.              *)
(***************************************************************************)
InviteReturned == pc = "remove" /\ to_add_emails # {} /\ ~DryRun

AllChunksSubmitted ==
    /\ Sizes(calls, "invite", InviteOutcomes) = Len(user_ids_to_invite)
    /\ Targets(calls, "invite", InviteOutcomes) = Range(user_ids_to_invite)
    /\ \A k \in CallsOf(calls, "invite", InviteOutcomes) :
          Cardinality(calls[k].users) <= chunk_size

C9_Original ==
    InviteReturned =>
       /\ stats.added = Len(user_ids_to_invite) - Sizes(calls, "invite", {"error"})
       /\ AllChunksSubmitted

(***************************************************************************)
(* C9, amended: outside a dry run an already-a-member answer is not        *)
(* treated as an error, but its chunk is not counted either: count_added   *)
(* is the number of resolved handles less the sizes of all chunks whose    *)
(* invite answered with an API error, already-a-member included; every     *)
(* chunk is submitted.                                                     *)
(***************************************************************************)
C9_AddedCountsOkChunks ==
    InviteReturned =>
       /\ stats.added = Len(user_ids_to_invite)
             - Sizes(calls, "invite", {"error", "already_in_channel"})
       /\ AllChunksSubmitted
       /\ stats.status = "Success"

\* two chunks: the first answered already-a-member, the second was submitted
C9_Witness ==
    /\ InviteReturned
    /\ Len(calls) >= 2
    /\ calls[1].op = "invite" /\ calls[1].result = "already_in_channel"
    /\ calls[2].op = "invite" /\ calls[2].result = "ok"

(***************************************************************************)
(* C10: whenever an invite chunk or a kick call fails with an API error    *)
(* that is not benign, the errors list of the mapping holds an entry for   *)
(* the failure when the mapping finishes.                                  *)
(***************************************************************************)
C10_FailuresInErrors ==
    Ended => Len(stats.errors) >=
                Cardinality(CallsOf(calls, "invite", {"error"}))
                + Cardinality(CallsOf(calls, "kick", {"error"}))
(***************************************************************************)
(* The single-mapping variant of aligner.py: main populates the two maps   *)
(* of SlackClient and calls sync_group_to_channel once.  It runs on the    *)
(* same state: user_cache holds email_to_id_map, id_map holds              *)
(* id_to_email_map, slack_uids the member_ids of get_channel_members,      *)
(* to_add_emails and candidate_remove_emails hold to_add and to_remove,    *)
(* user_ids_to_invite the user_ids of add_users_to_channel, remaining the  *)
(* user_ids of remove_users_from_channel still to kick, and settings the   *)
(* arguments remove_extras and dry_run.  An address of 0 is a profile      *)
(* without email.                                                          *)
(***************************************************************************)
\* aligner.py, add_users_to_channel
aligner_chunk_size == 50

\* SlackClient.populate_user_cache, lines 70-75
Mapped(member) == ~member.deleted /\ ~member.is_bot /\ member.email # 0

RECURSIVE email_to_id_map(_, _)
email_to_id_map(members, n) ==
    IF n = 0 THEN <<>>
    ELSE LET rest == email_to_id_map(members, n - 1)
             member == members[n]
         IN  IF Mapped(member) THEN (Lower(member.email) :> member.id) @@ rest
             ELSE rest

RECURSIVE id_to_email_map(_, _)
id_to_email_map(members, n) ==
    IF n = 0 THEN <<>>
    ELSE LET rest == id_to_email_map(members, n - 1)
             member == members[n]
         IN  IF Mapped(member) THEN (member.id :> Lower(member.email)) @@ rest
             ELSE rest

\* SlackClient.get_channel_members, lines 101-106
member_emails(member_ids) ==
    {id_map[uid] : uid \in {x \in member_ids : x \in DOMAIN id_map}}

\* lines 110 and 128: the handles of the addresses that have one, in list order
UserIds(emails) ==
    SelectSeq([k \in DOMAIN emails |->
                  IF emails[k] \in DOMAIN user_cache THEN user_cache[emails[k]] ELSE 0],
              LAMBDA x : x # 0)

AlignerChunkAt(ids, start) ==
    SubSeq(ids, start, IF start + aligner_chunk_size - 1 < Len(ids)
                       THEN start + aligner_chunk_size - 1 ELSE Len(ids))

\* what the run does not use stays as it is
aligner_unused == <<mappings, m_idx, stats, stats_list, protected_ids, slack_member_map,
                    missing_accounts, added_count, diffed, prev>>

AlignerInit ==
    /\ roster \in FreeRosters \cup {BulkRoster}
    /\ google_group \in GroupListings(roster)
    /\ channel \in SUBSET Accounts
    /\ settings \in [remove_extras : BOOLEAN, dry_run : BOOLEAN]
    /\ mappings = <<>>
    /\ pc = "populate"
    /\ user_cache = <<>>
    /\ id_map = <<>>
    /\ m_idx = 1
    /\ stats = SyncStats(0)
    /\ stats_list = <<>>
    /\ protected_ids = {}
    /\ slack_uids = {}
    /\ slack_member_map = <<>>
    /\ to_add_emails = {}
    /\ candidate_remove_emails = {}
    /\ remaining = {}
    /\ user_ids_to_invite = <<>>
    /\ missing_accounts = <<>>
    /\ added_count = 0
    /\ chunk_start = 1
    /\ calls = <<>>
    /\ diffed = FALSE
    /\ prev = NoPrev

(***************************************************************************)
(* main, line 185: the maps are filled once; an API error ends the run.    *)
(***************************************************************************)
AlignerPopulate ==
    /\ pc = "populate"
    /\ \E outcome \in {"ok", "error"} :
         IF outcome = "ok"
         THEN /\ user_cache' = email_to_id_map(roster, Len(roster))
              /\ id_map' = id_to_email_map(roster, Len(roster))
              /\ pc' = "sync"
         ELSE /\ pc' = "crashed"
              /\ UNCHANGED caches
    /\ UNCHANGED <<roster, google_group, channel, settings, slack_uids, to_add_emails,
                   candidate_remove_emails, remaining, user_ids_to_invite, chunk_start,
                   calls, aligner_unused>>

\* remove_users_from_channel, line 128, called on line 164 with remove_extras
RemoveIds(to_remove) ==
    IF settings.remove_extras THEN Range(UserIds(Asc(to_remove))) ELSE {}

(***************************************************************************)
(* sync_group_to_channel, lines 136-161: both fetches, the diff, the dry   *)
(* run and the start of add_users_to_channel (110), up to the first call   *)
(* to a mutating endpoint.  A failed fetch raises out of the run.          *)
(***************************************************************************)
AlignerSync ==
    /\ pc = "sync"
    /\ \E outcome \in {"ok", "google_error", "slack_error"} :
         IF outcome # "ok"
         THEN /\ pc' = "crashed"
              /\ UNCHANGED <<slack_uids, to_add_emails, candidate_remove_emails,
                             remaining, user_ids_to_invite>>
         ELSE LET google_members == get_group_members(google_group)
                  slack_members == member_emails(channel)
                  to_add == google_members \ slack_members
                  to_remove == slack_members \ google_members
              IN
              /\ slack_uids' = channel
              /\ to_add_emails' = to_add
              /\ candidate_remove_emails' = to_remove
              /\ IF settings.dry_run
                 THEN /\ pc' = "done"
                      /\ UNCHANGED <<remaining, user_ids_to_invite>>
                 ELSE IF to_add = {}
                 THEN /\ pc' = "remove"
                      /\ remaining' = RemoveIds(to_remove)
                      /\ UNCHANGED user_ids_to_invite
                 ELSE \E emails \in ListOrders(to_add) :
                      /\ pc' = "add"
                      /\ user_ids_to_invite' = UserIds(emails)
                      /\ UNCHANGED remaining
    /\ UNCHANGED <<roster, google_group, channel, settings, caches, chunk_start,
                   calls, aligner_unused>>

(***************************************************************************)
(* add_users_to_channel, lines 116-124: one chunk.  The invite endpoint    *)
(* answers ok or with an API error, which is logged unless it is           *)
(* already_in_channel; anything else the call raises ends the run.         *)
(***************************************************************************)
AlignerAddChunk ==
    /\ pc = "add"
    /\ chunk_start <= Len(user_ids_to_invite)
    /\ LET chunk == AlignerChunkAt(user_ids_to_invite, chunk_start) IN
       \E outcome \in InviteOutcomes :
         /\ calls' = Append(calls, Call("invite", Range(chunk), outcome))
         /\ channel' = IF outcome = "ok" THEN channel \cup Range(chunk) ELSE channel
         /\ IF outcome = "exception"
            THEN pc' = "crashed" /\ UNCHANGED chunk_start
            ELSE chunk_start' = chunk_start + aligner_chunk_size /\ UNCHANGED pc
    /\ UNCHANGED <<roster, google_group, settings, caches, slack_uids, to_add_emails,
                   candidate_remove_emails, remaining, user_ids_to_invite,
                   aligner_unused>>

\* add_users_to_channel returns (111-112 or the end of the loop); lines 163-166
AlignerAddReturn ==
    /\ pc = "add"
    /\ chunk_start > Len(user_ids_to_invite)
    /\ pc' = "remove"
    /\ remaining' = RemoveIds(candidate_remove_emails)
    /\ UNCHANGED <<roster, google_group, channel, settings, caches, slack_uids,
                   to_add_emails, candidate_remove_emails, user_ids_to_invite,
                   chunk_start, calls, aligner_unused>>

(***************************************************************************)
(* remove_users_from_channel, lines 129-134: one handle of user_ids.  The  *)
(* kick endpoint answers ok or with an API error (logged); anything else   *)
(* the call raises ends the run.                                           *)
(***************************************************************************)
AlignerRemoveUser ==
    /\ pc = "remove"
    /\ \E uid \in remaining, outcome \in KickOutcomes :
         /\ calls' = Append(calls, Call("kick", {uid}, outcome))
         /\ channel' = IF outcome = "ok" THEN channel \ {uid} ELSE channel
         /\ IF outcome = "exception"
            THEN pc' = "crashed" /\ UNCHANGED remaining
            ELSE remaining' = remaining \ {uid} /\ UNCHANGED pc
    /\ UNCHANGED <<roster, google_group, settings, caches, slack_uids, to_add_emails,
                   candidate_remove_emails, user_ids_to_invite, chunk_start,
                   aligner_unused>>

\* sync_group_to_channel returns
AlignerReturn ==
    /\ pc = "remove"
    /\ remaining = {}
    /\ pc' = "done"
    /\ UNCHANGED <<roster, google_group, channel, settings, caches, slack_uids,
                   to_add_emails, candidate_remove_emails, remaining,
                   user_ids_to_invite, chunk_start, calls, aligner_unused>>

AlignerNext ==
    \/ AlignerPopulate
    \/ AlignerSync
    \/ AlignerAddChunk
    \/ AlignerAddReturn
    \/ AlignerRemoveUser
    \/ AlignerReturn

AlignerSpec == AlignerInit /\ [][AlignerNext]_vars

(***************************************************************************)
(* C11: in the single-mapping variant no kick call is issued unless        *)
(* remove_extras is set and dry_run is not; with dry_run set no invite or  *)
(* kick call is issued at all; every kicked handle is a fetched channel    *)
(* member whose address is not in the group; every invited handle has an   *)
(* address of the group that no fetched channel member has, and is itself  *)
(* no channel member.                                                      *)
(***************************************************************************)
C11_RemovalIsOptional ==
    LET kicked == Targets(calls, "kick", KickOutcomes)
        invited == Targets(calls, "invite", InviteOutcomes)
        group == get_group_members(google_group)
    IN
    /\ kicked # {} => settings.remove_extras /\ ~settings.dry_run
    /\ settings.dry_run => calls = <<>>
    /\ \A uid \in kicked :
          /\ uid \in slack_uids
          /\ uid \in DOMAIN id_map
          /\ id_map[uid] \notin group
    /\ \A uid \in invited :
          /\ uid \in DOMAIN id_map
          /\ id_map[uid] \in group
          /\ id_map[uid] \notin member_emails(slack_uids)
          /\ uid \notin slack_uids

(***************************************************************************)
(* C12: the stats list holds one SyncStats per enabled mapping that the    *)
(* loop has passed, in configuration order, and none for a disabled one,   *)
(* which is passed without a call or any other effect; and when a mapping  *)
(* finishes "Success" every removal candidate has been counted once,       *)
(* removed + skipped + the "Failed to kick" errors = |candidate_remove|,   *)
(* and added + |missing_accounts| <= |to_add|.                             *)
(***************************************************************************)
NamesOf(list) == [k \in DOMAIN list |-> list[k].mapping_name]

EnabledBefore(n) ==
    LET passed == SelectSeq(SubSeq(mappings, 1, n - 1), LAMBDA m : m.enabled)
    IN  [k \in DOMAIN passed |-> passed[k].name]

KickErrors(st) == Len(SelectSeq(st.errors, LAMBDA err : err.msg = "Failed to kick"))

OnePerEnabledMapping ==
    /\ NamesOf(stats_list) = EnabledBefore(m_idx)
    /\ pc = "done" => m_idx = Len(mappings) + 1

CandidatesCountedOnce ==
    (Ended /\ stats.status = "Success") =>
       /\ stats.removed + stats.skipped + KickErrors(stats)
             = Cardinality(candidate_remove_emails)
       /\ Len(stats.errors) = KickErrors(stats)
       /\ stats.added + Len(stats.missing_accounts) <= Cardinality(to_add_emails)
       /\ stats_list[Len(stats_list)] = stats

DisabledPassedOver ==
    (m_idx' # m_idx /\ ~mappings[m_idx].enabled) =>
       UNCHANGED <<stats_list, stats, calls, channel, diff, invite, remaining>>

C12_Accounting ==
    /\ [](OnePerEnabledMapping /\ CandidatesCountedOnce)
    /\ [][DisabledPassedOver]_vars

\* a run over a disabled mapping is through, and its last mapping finished
\* "Success" with one candidate skipped and one whose kick failed
C12_Witness ==
    /\ pc = "done"
    /\ Len(stats_list) < Len(mappings)
    /\ stats.status = "Success"
    /\ stats.skipped = 1 /\ KickErrors(stats) = 1

====
